---- MODULE Spec2Model ----
(***************************************************************************)
(* Session controller of Grandmaster-Chess-Mobile (src/App.tsx): the clock *)
(* pair, square selection and move application, take-back, reset, the      *)
(* asynchronous hint request and the timeout check, over a rules engine.   *)
(*                                                                         *)
(* The rules engine is the external library chess.js.  It is represented   *)
(* by chess itself on a small board (kings, one pawn, queens by promotion) *)
(* so that check, checkmate, stalemate, insufficient material, capture and *)
(* promotion all occur within a few plies of the starting position.        *)
(***************************************************************************)
EXTENDS Integers, Sequences, FiniteSets, TLC

(***************************************************************************)
(* Bounds of the model.                                                    *)
(***************************************************************************)
\* longest move history explored (the engine's history is unbounded)
MaxPlies == 3
\* interval callbacks delivered in one behaviour
MaxTicks == 1
\* commentary calls in flight at once
MaxTips == 1
\* handleAnalyze calls made in a session
MaxAnalyses == 1
\* Coach requests made in a session of repeated requests
MaxOverlap == 2
\* seconds left to each side where a late session is picked up
LateSeconds == 1
\* the scenario of sixty seconds per side: callbacks delivered at most
SixtyOneTicks == 61

(***************************************************************************)
(* Rules engine (chess.js as used through gameRef.current).                *)
(***************************************************************************)
Files == {1, 2, 3}
Ranks == {1, 2, 3}
Squares == Files \X Ranks

Colors == {"w", "b"}
None == "none"
Empty == [c |-> "-", t |-> "-"]

Other(c) == IF c = "w" THEN "b" ELSE "w"

\* a piece: its colour and its type (k, q, p)
Piece(c, t) == [c |-> c, t |-> t]
ColorOf(p) == p.c
TypeOf(p) == p.t

PromoPieces == {"q", "r", "b", "n"}

LastRank(c) == IF c = "w" THEN 3 ELSE 1
Forward(c) == IF c = "w" THEN 1 ELSE -1

Dirs == {<<-1, -1>>, <<-1, 0>>, <<-1, 1>>, <<0, -1>>, <<0, 1>>, <<1, -1>>, <<1, 0>>, <<1, 1>>}

Step(sq, d, k) == <<sq[1] + k * d[1], sq[2] + k * d[2]>>

\* squares a piece standing on sq attacks
Attacks(b, sq) ==
    LET p == b[sq] IN
    IF p = Empty THEN {}
    ELSE IF TypeOf(p) = "k" THEN {Step(sq, d, 1) : d \in Dirs} \cap Squares
    ELSE IF TypeOf(p) = "p"
         THEN {<<sq[1] - 1, sq[2] + Forward(ColorOf(p))>>,
               <<sq[1] + 1, sq[2] + Forward(ColorOf(p))>>} \cap Squares
    ELSE {t \in Squares : \E d \in Dirs : \E k \in 1..2 :
             /\ t = Step(sq, d, k)
             /\ \A j \in 1..(k - 1) : b[Step(sq, d, j)] = Empty}

Attacked(b, target, by) ==
    \E s \in Squares : b[s] # Empty /\ ColorOf(b[s]) = by /\ target \in Attacks(b, s)

KingSquare(b, c) == CHOOSE s \in Squares : b[s] = Piece(c, "k")

InCheckOf(b, c) == Attacked(b, KingSquare(b, c), Other(c))

\* the board after a move (from, to, promotion)
After(b, from, to, promo) ==
    [b EXCEPT ![from] = Empty,
              ![to] = IF promo = None THEN b[from] ELSE Piece(ColorOf(b[from]), promo)]

\* destinations of the piece on sq, before the king-safety test
Targets(b, sq) ==
    LET p == b[sq] IN
    IF p = Empty THEN {}
    ELSE IF TypeOf(p) = "p"
         THEN {t \in Squares :
                 \/ /\ t = <<sq[1], sq[2] + Forward(ColorOf(p))>>
                    /\ b[t] = Empty
                 \/ /\ t \in Attacks(b, sq)
                    /\ b[t] # Empty
                    /\ ColorOf(b[t]) # ColorOf(p)}
    ELSE {t \in Attacks(b, sq) : b[t] = Empty \/ ColorOf(b[t]) # ColorOf(p)}

Promotions(b, from, to) ==
    IF TypeOf(b[from]) = "p" /\ to[2] = LastRank(ColorOf(b[from]))
    THEN PromoPieces ELSE {None}

\* chess.js _moves(): the legal moves of colour c, as (from, to, promotion)
LegalMoves(b, c) ==
    UNION {UNION {{[from |-> s, to |-> t, promotion |-> p] : p \in Promotions(b, s, t)}
                  : t \in {x \in Targets(b, s) :
                              ~InCheckOf(After(b, s, x, None), c)}}
           : s \in {x \in Squares : b[x] # Empty /\ ColorOf(b[x]) = c}}

IsCheckmateOf(b, c) == InCheckOf(b, c) /\ LegalMoves(b, c) = {}
IsStalemateOf(b, c) == ~InCheckOf(b, c) /\ LegalMoves(b, c) = {}
InsufficientMaterial(b) == \A s \in Squares : b[s] = Empty \/ TypeOf(b[s]) = "k"
\* chess.js isDraw(): fifty-move rule, stalemate, insufficient material or
\* threefold repetition (the first and the last need more plies than MaxPlies)
IsDrawOf(b, c) == IsStalemateOf(b, c) \/ InsufficientMaterial(b)
IsGameOverOf(b, c) == IsCheckmateOf(b, c) \/ IsStalemateOf(b, c) \/ IsDrawOf(b, c)

\* standard algebraic notation of a legal move: piece letter, the file of a
\* capturing pawn, the capture mark, the destination, the promotion piece and
\* the check or mate suffix
San(b, m) ==
    LET p == b[m.from]
        nb == After(b, m.from, m.to, m.promotion)
        opp == Other(ColorOf(p))
    IN  [piece |-> TypeOf(p),
         file |-> IF TypeOf(p) = "p" /\ b[m.to] # Empty THEN m.from[1] ELSE 0,
         capture |-> b[m.to] # Empty,
         to |-> m.to,
         promotion |-> m.promotion,
         suffix |-> IF IsCheckmateOf(nb, opp) THEN "#"
                    ELSE IF InCheckOf(nb, opp) THEN "+" ELSE ""]

\* the position new Chess() and reset() set up; white moves first
StartBoard ==
    [s \in Squares |->
        IF s = <<1, 3>> THEN Piece("w", "k")
        ELSE IF s = <<3, 2>> THEN Piece("w", "p")
        ELSE IF s = <<3, 1>> THEN Piece("b", "k")
        ELSE Empty]


NoSquare == <<0, 0>>
NoMove == [from |-> NoSquare, to |-> NoSquare]

\* a move as chess.js reports it (moves({verbose: true}), the result of
\* move(), an entry of history({verbose: true}))
MoveObject(b, m) ==
    [from |-> m.from, to |-> m.to, promotion |-> m.promotion, san |-> San(b, m),
     piece |-> b[m.from], captured |-> b[m.to]]

\* what the engine answers about one position
Answers(b, c) ==
    [moves |-> {MoveObject(b, m) : m \in LegalMoves(b, c)},
     inCheck |-> InCheckOf(b, c),
     isCheckmate |-> IsCheckmateOf(b, c),
     isDraw |-> IsDrawOf(b, c),
     isStalemate |-> IsStalemateOf(b, c),
     isGameOver |-> IsGameOverOf(b, c)]

\* the positions within k moves of those of S (the controller promotes to a
\* queen only)
Successors(p) ==
    {<<After(p[1], m.from, m.to, m.promotion), Other(p[2])>> :
        m \in {x \in LegalMoves(p[1], p[2]) : x.promotion \in {None, "q"}}}

RECURSIVE Within(_, _)
Within(S, k) ==
    IF k = 0 THEN S
    ELSE Within(S \cup UNION {Successors(p) : p \in S}, k - 1)

\* the engine's answers, worked out once for every position a history of at
\* most MaxPlies moves leads to
Book == [p \in Within({<<StartBoard, "w">>}, MaxPlies) |-> Answers(p[1], p[2])]

moves(b, c) == Book[<<b, c>>].moves
inCheck(b, c) == Book[<<b, c>>].inCheck
isCheckmate(b, c) == Book[<<b, c>>].isCheckmate
isDraw(b, c) == Book[<<b, c>>].isDraw
isStalemate(b, c) == Book[<<b, c>>].isStalemate
isGameOver(b, c) == Book[<<b, c>>].isGameOver

\* Matching with the from square of the request ignored
MatchingAnyPiece(b, c, from, to, promo) ==
    {m \in moves(b, c) : m.to = to /\ (m.promotion = None \/ m.promotion = promo)}

\* chess.js move({from, to, promotion}): the legal moves the request matches
\* (a promotion asked for on a move that is none is ignored); none: it throws
Matching(b, c, from, to, promo) ==
    {m \in moves(b, c) :
        m.from = from /\ m.to = to /\ (m.promotion = None \/ m.promotion = promo)}

\* chess.js fen(): the placement, the side to move and the move counter
Fen(b, c, h) == [placement |-> b, turn |-> c, ply |-> Len(h)]

\* chess.js undo(): the board before the last entry of the history
Undone(b, e) == [b EXCEPT ![e.from] = e.piece, ![e.to] = e.captured]

(***************************************************************************)
(* Settings (src/App.tsx 47-61, src/components/SettingsModal.tsx).         *)
(***************************************************************************)
TimeControls == {1, 3, 5, 10, 30}
DefaultTimeControl == 10
SecondsPerMinute == 60

\* a localStorage entry: absent, text that is no JSON, or a JSON number
Missing == [kind |-> "missing", value |-> 0]
Garbage == [kind |-> "garbage", value |-> 0]
Json(v) == [kind |-> "json", value |-> v]

getSavedSetting(saved, defaultValue) ==
    IF saved.kind = "json" THEN saved.value ELSE defaultValue

\* what the store may hold for chess_timeControl when a session starts
StoredTimeControls == {Missing, Garbage, Json(-1)}

\* JavaScript values of the settings: numbers, booleans and strings, a string
\* being the sequence of its characters
Number(n) == [t |-> "number", v |-> n]
Boolean(b) == [t |-> "boolean", v |-> b]
String(chars) == [t |-> "string", v |-> chars]

Quote == "\""
Backslash == "\\"
DigitChars == <<"0", "1", "2", "3", "4", "5", "6", "7", "8", "9">>
TrueText == <<"t", "r", "u", "e">>
FalseText == <<"f", "a", "l", "s", "e">>

RECURSIVE NatText(_)
NatText(n) ==
    IF n < 10 THEN <<DigitChars[n + 1]>>
    ELSE NatText(n \div 10) \o <<DigitChars[(n % 10) + 1]>>

RECURSIVE Escaped(_)
Escaped(chars) ==
    IF chars = <<>> THEN <<>>
    ELSE (IF Head(chars) \in {Quote, Backslash}
          THEN <<Backslash, Head(chars)>>
          ELSE <<Head(chars)>>) \o Escaped(Tail(chars))

\* JSON.stringify of a number, a boolean or a string
JSONstringify(value) ==
    IF value.t = "number"
    THEN IF value.v < 0 THEN <<"-">> \o NatText(0 - value.v) ELSE NatText(value.v)
    ELSE IF value.t = "boolean"
    THEN IF value.v THEN TrueText ELSE FalseText
    ELSE <<Quote>> \o Escaped(value.v) \o <<Quote>>

Thrown == [ok |-> FALSE]
Parsed(value) == [ok |-> TRUE, value |-> value]

DigitOf(char) == (CHOOSE d \in DOMAIN DigitChars : DigitChars[d] = char) - 1
IsDigit(char) == \E d \in DOMAIN DigitChars : DigitChars[d] = char

RECURSIVE NatOf(_)
NatOf(digits) ==
    IF Len(digits) = 1 THEN DigitOf(digits[1])
    ELSE 10 * NatOf(SubSeq(digits, 1, Len(digits) - 1)) + DigitOf(digits[Len(digits)])

IsNatText(text) ==
    /\ text # <<>>
    /\ \A i \in DOMAIN text : IsDigit(text[i])
    /\ Len(text) > 1 => text[1] # "0"

\* the characters between the quotes of a JSON string, or Thrown
RECURSIVE Unescaped(_)
Unescaped(text) ==
    IF text = <<>> THEN Parsed(<<>>)
    ELSE IF Head(text) = Quote THEN Thrown
    ELSE IF Head(text) = Backslash
    THEN IF Len(text) >= 2 /\ text[2] \in {Quote, Backslash}
         THEN LET rest == Unescaped(SubSeq(text, 3, Len(text)))
              IN  IF rest.ok THEN Parsed(<<text[2]>> \o rest.value) ELSE Thrown
         ELSE Thrown
    ELSE LET rest == Unescaped(Tail(text))
         IN  IF rest.ok THEN Parsed(<<Head(text)>> \o rest.value) ELSE Thrown

\* JSON.parse of a text: a number, true, false or a string, and a SyntaxError
\* (Thrown) for the other texts of the model
JSONparse(text) ==
    IF text = TrueText THEN Parsed(Boolean(TRUE))
    ELSE IF text = FalseText THEN Parsed(Boolean(FALSE))
    ELSE IF IsNatText(text) THEN Parsed(Number(NatOf(text)))
    ELSE IF Len(text) >= 2 /\ Head(text) = "-" /\ IsNatText(Tail(text))
    THEN Parsed(Number(0 - NatOf(Tail(text))))
    ELSE IF Len(text) >= 2 /\ Head(text) = Quote /\ text[Len(text)] = Quote
    THEN LET inner == Unescaped(SubSeq(text, 2, Len(text) - 1))
         IN  IF inner.ok THEN Parsed(String(inner.value)) ELSE Thrown
    ELSE Thrown

\* lines 58-61: the defaults of the other settings
DefaultBoardTheme == String(<<"g", "r", "e", "e", "n">>)
DefaultWhiteName == String(<<"W", "h", "i", "t", "e">>)
DefaultBlackName == String(<<"B", "l", "a", "c", "k">>)

\* lines 64-70: the Persist Settings effect, run after the first render and
\* after every render that changed a setting
Persisted(tc, theme, sound, white, black) ==
    [chess_timeControl |-> JSONstringify(Number(tc)),
     chess_boardTheme |-> JSONstringify(theme),
     chess_soundEnabled |-> JSONstringify(sound),
     chess_whiteName |-> JSONstringify(white),
     chess_blackName |-> JSONstringify(black)]

\* localStorage.getItem gives null for a key that was never set
NoText == <<"null">>

\* Saved with a parsed value that is falsy taken as no entry
SavedTruthy(text) ==
    IF text = NoText \/ text = <<>> THEN Missing
    ELSE LET parsed == JSONparse(text)
         IN  IF ~parsed.ok THEN Garbage
             ELSE IF \/ parsed.value.t = "boolean" /\ ~parsed.value.v
                     \/ parsed.value.t = "string" /\ parsed.value.v = <<>>
                     \/ parsed.value.t = "number" /\ parsed.value.v = 0
             THEN Missing
             ELSE Json(parsed.value)

\* `saved ? JSON.parse(saved) : defaultValue` inside try/catch: the entry a
\* text of the store amounts to
Saved(text) ==
    IF text = NoText \/ text = <<>> THEN Missing
    ELSE LET parsed == JSONparse(text)
         IN  IF parsed.ok THEN Json(parsed.value) ELSE Garbage

\* the entry of chess_timeControl, its number as the model keeps timeControl
SavedNumber(text) ==
    LET saved == Saved(text)
    IN  IF saved.kind = "json" THEN Json(saved.value.v) ELSE saved

(***************************************************************************)
(* Outcome: gameOver together with gameStatus.                             *)
(***************************************************************************)
Status(kind, winner) == [kind |-> kind, winner |-> winner]
Active == Status("", "-")
Checkmate(winner) == Status("checkmate", winner)
Draw == Status("draw", "-")
Stalemate == Status("stalemate", "-")
GameOverStatus == Status("game over", "-")
Timeout(winner) == Status("timeout", winner)

Outcome(go, st) == [gameOver |-> go, gameStatus |-> st]

\* updateGameState, lines 164-183: go, st are the current outcome and wt, bt
\* the clock values of the render that created the callback
DerivedOutcome(b, c, go, st, wt, bt) ==
    IF isGameOver(b, c)
    THEN Outcome(TRUE,
                 IF isCheckmate(b, c) THEN Checkmate(Other(c))
                 ELSE IF isDraw(b, c) THEN Draw
                 ELSE IF isStalemate(b, c) THEN Stalemate
                 ELSE GameOverStatus)
    ELSE IF wt > 0 /\ bt > 0 THEN Outcome(FALSE, Active)
    ELSE Outcome(go, st)

\* TimeoutEffect with the winners exchanged
TimeoutEffectSameSide(go, st, wt, bt) ==
    IF go THEN Outcome(go, st)
    ELSE IF wt <= 0 THEN Outcome(TRUE, Timeout("w"))
    ELSE IF bt <= 0 THEN Outcome(TRUE, Timeout("b"))
    ELSE Outcome(go, st)

\* the "Check for Timeout" effect run with the values go, wt, bt of its render
TimeoutEffect(go, st, wt, bt) ==
    IF go THEN Outcome(go, st)
    ELSE IF wt <= 0 THEN Outcome(TRUE, Timeout("b"))
    ELSE IF bt <= 0 THEN Outcome(TRUE, Timeout("w"))
    ELSE Outcome(go, st)

\* one interval callback on the clock of the side to move
Decrement(prev) == IF prev <= 0 THEN 0 ELSE prev - 1

VARIABLES
    board, eturn, hist,          \* gameRef.current: placement, side to move, history
    fen, turn, isCheck,          \* useState copies made by updateGameState
    gameOver, gameStatus,
    selectedSquare, possibleMoves,
    lastMove, historyCount,
    suggestedMove, suggestionLoading,
    coachTip,
    timeControl, whiteTime, blackTime,
    hintCalls,                   \* the pending analyzeBoard call of handleSuggestMove
    tipCalls,                    \* pending getCoachTip calls
    checkPending,                \* the timeout effect of a tick's render, not yet run
    ticks,                       \* interval callbacks delivered so far
    orientation,                 \* the side rendered at the bottom of the board
    boardTheme, soundEnabled,    \* the settings besides timeControl
    whiteName, blackName,
    store,                       \* localStorage: the text under each key
    isAnalysisOpen, analysisLoading,
    analysisResult,              \* null, or the result of one handleAnalyze call
    analysisCalls,               \* the analyzeBoard calls of handleAnalyze in flight
    analysisIssued               \* handleAnalyze calls made so far

engine == <<board, eturn, hist>>
derived == <<fen, turn, isCheck, lastMove, historyCount>>
outcome == <<gameOver, gameStatus>>
selection == <<selectedSquare, possibleMoves>>
hint == <<suggestedMove, suggestionLoading, hintCalls>>
tips == <<coachTip, tipCalls>>
clocks == <<whiteTime, blackTime>>

settings == <<boardTheme, soundEnabled, whiteName, blackName, store>>

analysis == <<isAnalysisOpen, analysisLoading, analysisResult, analysisCalls,
              analysisIssued>>

vars == <<engine, derived, outcome, selection, hint, tips, clocks, timeControl,
          checkPending, ticks, orientation, settings, analysis>>

\* analysisResult is null or the result of the n-th handleAnalyze call
NoResult == [of |-> 0]
ResultOf(n) == [of |-> n]

\* coachTip is "" (NoTip) or the comment on a move: on the last move applied
\* and still standing, or on an earlier one (a move undone or reset away
\* counts as earlier)
NoTip == [about |-> "none"]
TipOn(which) == [about |-> which]

\* the getCoachTip calls in flight, counted by the move they comment on
NoCalls == [last |-> 0, earlier |-> 0]
InFlight(calls) == calls.last + calls.earlier

\* a move, an undo or a reset makes every call in flight, and the comment
\* shown, one on an earlier move
Outdated(calls) == [last |-> 0, earlier |-> calls.earlier + calls.last]
OutdatedTip(tip) == IF tip = NoTip THEN NoTip ELSE TipOn("earlier")

\* the values the timeout effect of a render closes over (gameOver is false
\* in every render that leaves the effect pending)
Closure(wt, bt) == [whiteTime |-> wt, blackTime |-> bt]

\* state after construction, with wt and bt on the clocks and last as the
\* move last shown on the board
MountedShowing(tc, wt, bt, last) ==
    /\ board = StartBoard
    /\ eturn = "w"
    /\ hist = <<>>
    /\ fen = Fen(StartBoard, "w", <<>>)
    /\ turn = "w"
    /\ isCheck = FALSE
    /\ gameOver = FALSE
    /\ gameStatus = Active
    /\ selectedSquare = NoSquare
    /\ possibleMoves = {}
    /\ lastMove = last
    /\ historyCount = 0
    /\ suggestedMove = NoMove
    /\ suggestionLoading = FALSE
    /\ coachTip = NoTip
    /\ timeControl = tc
    /\ whiteTime = wt
    /\ blackTime = bt
    /\ hintCalls = {}
    /\ tipCalls = NoCalls
    /\ checkPending = {Closure(wt, bt)}
    /\ ticks = 0
    /\ orientation = "w"
    /\ boardTheme = DefaultBoardTheme
    /\ soundEnabled = Boolean(TRUE)
    /\ whiteName = DefaultWhiteName
    /\ blackName = DefaultBlackName
    /\ store = Persisted(tc, DefaultBoardTheme, Boolean(TRUE), DefaultWhiteName,
                         DefaultBlackName)
    /\ isAnalysisOpen = FALSE
    /\ analysisLoading = FALSE
    /\ analysisResult = NoResult
    /\ analysisCalls = {}
    /\ analysisIssued = 0

Mounted(tc, wt, bt) == MountedShowing(tc, wt, bt, NoMove)

InitWith(saved) ==
    LET tc == getSavedSetting(saved, DefaultTimeControl)
    IN  Mounted(tc, tc * SecondsPerMinute, tc * SecondsPerMinute)

Init == \E saved \in StoredTimeControls : InitWith(saved)

(***************************************************************************)
(* Rendering.  A click handler's updates are rendered at once.  The        *)
(* timeout effect of a render caused by the interval runs later, on its    *)
(* own: a handler can run in between.  The effect still pending is then    *)
(* run with the values of its own render, either before the handler's      *)
(* render (its updates land in that render) or with its updates left for   *)
(* a render of their own, as the React root in use schedules them.         *)
(***************************************************************************)
PendingClosure == CHOOSE cp \in checkPending : TRUE

\* the outcome after the pending effect's updates are applied on top of o
Overridden(o, cp) ==
    IF cp.whiteTime <= 0 \/ cp.blackTime <= 0
    THEN TimeoutEffect(FALSE, Active, cp.whiteTime, cp.blackTime)
    ELSE o

\* commit of a handler's render: o is the outcome the handler queued, wt and
\* bt the clocks it queued
CommitOutcome(o, wt, bt) ==
    \E merge \in (IF checkPending = {} THEN {FALSE} ELSE BOOLEAN) :
        LET o1 == IF merge THEN Overridden(o, PendingClosure) ELSE o
            o2 == IF <<o1.gameOver, wt, bt>> # <<gameOver, whiteTime, blackTime>>
                  THEN TimeoutEffect(o1.gameOver, o1.gameStatus, wt, bt)
                  ELSE o1
        IN  /\ gameOver' = o2.gameOver
            /\ gameStatus' = o2.gameStatus
            /\ checkPending' = IF merge THEN {} ELSE checkPending

\* UpdateDerived without setTurn
UpdateDerivedKeepsTurn(b, c, h) ==
    /\ fen' = Fen(b, c, h)
    /\ turn' = turn
    /\ isCheck' = inCheck(b, c)
    /\ historyCount' = Len(h)
    /\ lastMove' = IF Len(h) > 0
                   THEN [from |-> h[Len(h)].from, to |-> h[Len(h)].to]
                   ELSE NoMove

\* UpdateDerived without setLastMove(null) for an empty history
UpdateDerivedKeepsLastMove(b, c, h) ==
    /\ fen' = Fen(b, c, h)
    /\ turn' = c
    /\ isCheck' = inCheck(b, c)
    /\ historyCount' = Len(h)
    /\ lastMove' = IF Len(h) > 0
                   THEN [from |-> h[Len(h)].from, to |-> h[Len(h)].to]
                   ELSE lastMove

\* updateGameState, lines 147-162
UpdateDerived(b, c, h) ==
    /\ fen' = Fen(b, c, h)
    /\ turn' = c
    /\ isCheck' = inCheck(b, c)
    /\ historyCount' = Len(h)
    /\ lastMove' = IF Len(h) > 0
                   THEN [from |-> h[Len(h)].from, to |-> h[Len(h)].to]
                   ELSE NoMove

(***************************************************************************)
(* Clock Pair: the interval of the "Timer Logic" effect and the "Check for *)
(* Timeout" effect.                                                        *)
(***************************************************************************)
\* TimerRuns without the test of gameOver
TimerRunsAlways(go) == TRUE

\* line 106: no interval exists while the game is over
TimerRuns(go) == ~go

\* TickWithin with the test of turn the wrong way round
TickWithinOtherSide(limit) ==
    /\ checkPending = {}
    /\ IF TimerRuns(gameOver)
       THEN /\ ticks < limit
            /\ ticks' = ticks + 1
            /\ whiteTime' = IF turn = "b" THEN Decrement(whiteTime) ELSE whiteTime
            /\ blackTime' = IF turn = "b" THEN blackTime ELSE Decrement(blackTime)
            /\ checkPending' = IF <<whiteTime', blackTime'>> # <<whiteTime, blackTime>>
                               THEN {Closure(whiteTime', blackTime')}
                               ELSE {}
       ELSE UNCHANGED <<clocks, checkPending, ticks>>
    /\ UNCHANGED <<engine, derived, outcome, selection, hint, tips, timeControl, orientation, settings, analysis>>

\* lines 105-123: one callback of the interval
TickWithin(limit) ==
    /\ checkPending = {}
    /\ IF TimerRuns(gameOver)
       THEN /\ ticks < limit
            /\ ticks' = ticks + 1
            /\ whiteTime' = IF turn = "w" THEN Decrement(whiteTime) ELSE whiteTime
            /\ blackTime' = IF turn = "w" THEN blackTime ELSE Decrement(blackTime)
            /\ checkPending' = IF <<whiteTime', blackTime'>> # <<whiteTime, blackTime>>
                               THEN {Closure(whiteTime', blackTime')}
                               ELSE {}
       ELSE UNCHANGED <<clocks, checkPending, ticks>>
    /\ UNCHANGED <<engine, derived, outcome, selection, hint, tips, timeControl, orientation, settings, analysis>>

Tick == TickWithin(MaxTicks)

TimeoutCheck ==
    /\ checkPending # {}
    /\ LET o == Overridden(Outcome(gameOver, gameStatus), PendingClosure)
       IN  /\ gameOver' = o.gameOver
           /\ gameStatus' = o.gameStatus
    /\ checkPending' = {}
    /\ UNCHANGED <<engine, derived, selection, hint, tips, clocks, timeControl, orientation, settings, analysis, ticks>>

(***************************************************************************)
(* Move Orchestrator: onSquareClick, undoMove, resetGame.                  *)
(***************************************************************************)
\* ClickAccepted only while no suggestion request is outstanding
ClickAcceptedIdle(go) == ~go /\ ~suggestionLoading

\* line 188
ClickAccepted(go) == ~go

\* Selectable without the test of the colour
SelectableAnyPiece(b, c, sq) == b[sq] # Empty

\* line 243
Selectable(b, c, sq) == b[sq] # Empty /\ ColorOf(b[sq]) = c

\* line 246
Destinations(b, c, sq) == {m.to : m \in {x \in moves(b, c) : x.from = sq}}

\* MoveAttempt without the promotion piece
MoveAttemptPlain(from, to) == [from |-> from, to |-> to, promotion |-> None]

\* lines 201-205
MoveAttempt(from, to) == [from |-> from, to |-> to, promotion |-> "q"]

\* a call in flight overtaken by a move or by a reset
Overtaken(calls, by) ==
    {[r EXCEPT ![by] = TRUE] : r \in calls}

\* MoveApplied without setSelectedSquare(null) and setPossibleMoves([])
MoveAppliedKeepsSelection(m) ==
    LET b == After(board, m.from, m.to, m.promotion)
        c == Other(eturn)
        h == Append(hist, m)
    IN  /\ Len(hist) < MaxPlies
        /\ board' = b
        /\ eturn' = c
        /\ hist' = h
        /\ UNCHANGED selection
        /\ suggestedMove' = NoMove
        /\ UNCHANGED suggestionLoading
        /\ hintCalls' = Overtaken(hintCalls, "moved")
        /\ UpdateDerived(b, c, h)
        /\ CommitOutcome(DerivedOutcome(b, c, gameOver, gameStatus, whiteTime, blackTime),
                         whiteTime, blackTime)
        /\ \/ /\ InFlight(tipCalls) < MaxTips
              /\ tipCalls' = [Outdated(tipCalls) EXCEPT !.last = 1]
              /\ coachTip' = OutdatedTip(coachTip)
           \/ /\ coachTip' = NoTip
              /\ tipCalls' = Outdated(tipCalls)
        /\ UNCHANGED <<clocks, timeControl, orientation, settings, analysis, ticks>>

\* MoveApplied without setSuggestedMove(null)
MoveAppliedKeepsSuggestion(m) ==
    LET b == After(board, m.from, m.to, m.promotion)
        c == Other(eturn)
        h == Append(hist, m)
    IN  /\ Len(hist) < MaxPlies
        /\ board' = b
        /\ eturn' = c
        /\ hist' = h
        /\ selectedSquare' = NoSquare
        /\ possibleMoves' = {}
        /\ UNCHANGED <<suggestedMove, suggestionLoading>>
        /\ hintCalls' = Overtaken(hintCalls, "moved")
        /\ UpdateDerived(b, c, h)
        /\ CommitOutcome(DerivedOutcome(b, c, gameOver, gameStatus, whiteTime, blackTime),
                         whiteTime, blackTime)
        /\ \/ /\ InFlight(tipCalls) < MaxTips
              /\ tipCalls' = [Outdated(tipCalls) EXCEPT !.last = 1]
              /\ coachTip' = OutdatedTip(coachTip)
           \/ /\ coachTip' = NoTip
              /\ tipCalls' = Outdated(tipCalls)
        /\ UNCHANGED <<clocks, timeControl, orientation, settings, analysis, ticks>>

\* lines 215-234
MoveApplied(m) ==
    LET b == After(board, m.from, m.to, m.promotion)
        c == Other(eturn)
        h == Append(hist, m)
    IN  /\ Len(hist) < MaxPlies
        /\ board' = b
        /\ eturn' = c
        /\ hist' = h
        /\ selectedSquare' = NoSquare
        /\ possibleMoves' = {}
        /\ suggestedMove' = NoMove
        /\ UNCHANGED suggestionLoading
        /\ hintCalls' = Overtaken(hintCalls, "moved")
        /\ UpdateDerived(b, c, h)
        /\ CommitOutcome(DerivedOutcome(b, c, gameOver, gameStatus, whiteTime, blackTime),
                         whiteTime, blackTime)
        /\ \/ /\ InFlight(tipCalls) < MaxTips
              /\ tipCalls' = [Outdated(tipCalls) EXCEPT !.last = 1]
              /\ coachTip' = OutdatedTip(coachTip)
           \/ /\ coachTip' = NoTip
              /\ tipCalls' = Outdated(tipCalls)
        /\ UNCHANGED <<clocks, timeControl, orientation, settings, analysis, ticks>>

\* SelectNew with the selection kept where the square cannot be selected
SelectNewKeeps(square) ==
    /\ IF Selectable(board, eturn, square)
       THEN /\ selectedSquare' = square
            /\ possibleMoves' = Destinations(board, eturn, square)
       ELSE UNCHANGED selection
    /\ CommitOutcome(Outcome(gameOver, gameStatus), whiteTime, blackTime)
    /\ UNCHANGED <<engine, derived, hint, tips, clocks, timeControl, orientation, settings, analysis, ticks>>

\* lines 241-251
SelectNew(square) ==
    /\ IF Selectable(board, eturn, square)
       THEN /\ selectedSquare' = square
            /\ possibleMoves' = Destinations(board, eturn, square)
       ELSE /\ selectedSquare' = NoSquare
            /\ possibleMoves' = {}
    /\ CommitOutcome(Outcome(gameOver, gameStatus), whiteTime, blackTime)
    /\ UNCHANGED <<engine, derived, hint, tips, clocks, timeControl, orientation, settings, analysis, ticks>>

\* onSquareClick with the destinations kept when the selection is dropped
onSquareClickKeepsDestinations(square) ==
    IF ~ClickAccepted(gameOver)
    THEN UNCHANGED vars
    ELSE IF selectedSquare = square
    THEN /\ selectedSquare' = NoSquare
         /\ possibleMoves' = possibleMoves
         /\ CommitOutcome(Outcome(gameOver, gameStatus), whiteTime, blackTime)
         /\ UNCHANGED <<engine, derived, hint, tips, clocks, timeControl, orientation, settings, analysis, ticks>>
    ELSE LET attempt == MoveAttempt(selectedSquare, square)
             found == IF selectedSquare = NoSquare THEN {}
                      ELSE Matching(board, eturn, attempt.from, attempt.to, attempt.promotion)
         IN  IF found # {}
             THEN MoveApplied(CHOOSE m \in found : TRUE)
             ELSE SelectNew(square)

\* lines 187-252
onSquareClick(square) ==
    IF ~ClickAccepted(gameOver)
    THEN UNCHANGED vars
    ELSE IF selectedSquare = square
    THEN /\ selectedSquare' = NoSquare
         /\ possibleMoves' = {}
         /\ CommitOutcome(Outcome(gameOver, gameStatus), whiteTime, blackTime)
         /\ UNCHANGED <<engine, derived, hint, tips, clocks, timeControl, orientation, settings, analysis, ticks>>
    ELSE LET attempt == MoveAttempt(selectedSquare, square)
             found == IF selectedSquare = NoSquare THEN {}
                      ELSE Matching(board, eturn, attempt.from, attempt.to, attempt.promotion)
         IN  IF found # {}
             THEN MoveApplied(CHOOSE m \in found : TRUE)
             ELSE SelectNew(square)

Click == \E square \in Squares : onSquareClick(square)

\* lines 601-603: the Takeback button
UndoEnabled == historyCount # 0 /\ ~gameOver

\* undoMove with the clocks set back to the time control
undoMoveRefunds ==
    /\ UndoEnabled
    /\ Len(hist) # 0
    /\ LET e == hist[Len(hist)]
           b == Undone(board, e)
           c == Other(eturn)
           h == SubSeq(hist, 1, Len(hist) - 1)
       IN  /\ board' = b
           /\ eturn' = c
           /\ hist' = h
           /\ UpdateDerived(b, c, h)
           /\ CommitOutcome(DerivedOutcome(b, c, gameOver, gameStatus, whiteTime, blackTime),
                            whiteTime, blackTime)
    /\ selectedSquare' = NoSquare
    /\ possibleMoves' = {}
    /\ suggestedMove' = NoMove
    /\ coachTip' = NoTip
    /\ tipCalls' = Outdated(tipCalls)
    /\ whiteTime' = timeControl * SecondsPerMinute
    /\ blackTime' = timeControl * SecondsPerMinute
    /\ UNCHANGED <<suggestionLoading, hintCalls, timeControl, orientation, settings, analysis, ticks>>

\* undoMove without setSuggestedMove(null)
undoMoveKeepsSuggestion ==
    /\ UndoEnabled
    /\ Len(hist) # 0
    /\ LET e == hist[Len(hist)]
           b == Undone(board, e)
           c == Other(eturn)
           h == SubSeq(hist, 1, Len(hist) - 1)
       IN  /\ board' = b
           /\ eturn' = c
           /\ hist' = h
           /\ UpdateDerived(b, c, h)
           /\ CommitOutcome(DerivedOutcome(b, c, gameOver, gameStatus, whiteTime, blackTime),
                            whiteTime, blackTime)
    /\ selectedSquare' = NoSquare
    /\ possibleMoves' = {}
    /\ coachTip' = NoTip
    /\ tipCalls' = Outdated(tipCalls)
    /\ UNCHANGED <<suggestedMove, suggestionLoading, hintCalls, clocks, timeControl, orientation, settings, analysis, ticks>>

\* lines 254-264
undoMove ==
    /\ UndoEnabled
    /\ Len(hist) # 0
    /\ LET e == hist[Len(hist)]
           b == Undone(board, e)
           c == Other(eturn)
           h == SubSeq(hist, 1, Len(hist) - 1)
       IN  /\ board' = b
           /\ eturn' = c
           /\ hist' = h
           /\ UpdateDerived(b, c, h)
           /\ CommitOutcome(DerivedOutcome(b, c, gameOver, gameStatus, whiteTime, blackTime),
                            whiteTime, blackTime)
    /\ selectedSquare' = NoSquare
    /\ possibleMoves' = {}
    /\ suggestedMove' = NoMove
    /\ coachTip' = NoTip
    /\ tipCalls' = Outdated(tipCalls)
    /\ UNCHANGED <<suggestionLoading, hintCalls, clocks, timeControl, orientation, settings, analysis, ticks>>

\* resetGame with the clocks of the default time control
resetGameDefaultClocks ==
    /\ board' = StartBoard
    /\ eturn' = "w"
    /\ hist' = <<>>
    /\ whiteTime' = DefaultTimeControl * SecondsPerMinute
    /\ blackTime' = DefaultTimeControl * SecondsPerMinute
    /\ coachTip' = NoTip
    /\ selectedSquare' = NoSquare
    /\ possibleMoves' = {}
    /\ suggestedMove' = NoMove
    /\ hintCalls' = Overtaken(hintCalls, "reset")
    /\ UpdateDerived(StartBoard, "w", <<>>)
    /\ CommitOutcome(DerivedOutcome(StartBoard, "w", gameOver, gameStatus, whiteTime, blackTime),
                     DefaultTimeControl * SecondsPerMinute, DefaultTimeControl * SecondsPerMinute)
    /\ tipCalls' = Outdated(tipCalls)
    /\ UNCHANGED <<suggestionLoading, timeControl, orientation, settings, analysis, ticks>>

\* lines 266-276
resetGame ==
    /\ board' = StartBoard
    /\ eturn' = "w"
    /\ hist' = <<>>
    /\ whiteTime' = timeControl * SecondsPerMinute
    /\ blackTime' = timeControl * SecondsPerMinute
    /\ coachTip' = NoTip
    /\ selectedSquare' = NoSquare
    /\ possibleMoves' = {}
    /\ suggestedMove' = NoMove
    /\ hintCalls' = Overtaken(hintCalls, "reset")
    /\ UpdateDerived(StartBoard, "w", <<>>)
    /\ CommitOutcome(DerivedOutcome(StartBoard, "w", gameOver, gameStatus, whiteTime, blackTime),
                     timeControl * SecondsPerMinute, timeControl * SecondsPerMinute)
    /\ tipCalls' = Outdated(tipCalls)
    /\ UNCHANGED <<suggestionLoading, timeControl, orientation, settings, analysis, ticks>>

(***************************************************************************)
(* Recommendation Coordinator: handleSuggestMove and the Hint button.      *)
(***************************************************************************)
\* HintEnabled without the test of suggestionLoading
HintEnabledWhileLoading == ~gameOver

\* line 615: the Hint button
HintEnabled == ~gameOver /\ ~suggestionLoading

\* lines 288-293: up to the await.  moved and reset record what overtakes the
\* call while it is pending.
SuggestRequest ==
    /\ HintEnabled
    /\ ~gameOver
    /\ suggestionLoading' = TRUE
    /\ suggestedMove' = NoMove
    /\ hintCalls' = hintCalls \cup {[moved |-> FALSE, reset |-> FALSE]}
    /\ CommitOutcome(Outcome(gameOver, gameStatus), whiteTime, blackTime)
    /\ UNCHANGED <<engine, derived, selection, tips, clocks, timeControl, orientation, settings, analysis, ticks>>

\* what analyzeBoard resolves to: no bestMove (a failure, or a reply without
\* one), or a notation: of a move legal on the board when the call resolves,
\* or of none (a move of the position sent that is no longer legal, or text
\* that is no move)
NoBestMove == [piece |-> "undefined"]
Unplayable == [piece |-> "?"]

BestMoves ==
    {m.san : m \in moves(board, eturn)} \cup {NoBestMove, Unplayable}

\* Suggested with the notation ignored: any legal move is taken
SuggestedAnyMove(b, c, bestMove, current) ==
    IF bestMove # NoBestMove /\ moves(b, c) # {}
    THEN LET m == CHOOSE x \in moves(b, c) : TRUE IN [from |-> m.from, to |-> m.to]
    ELSE current

\* lines 295-303: game is gameRef.current, read when the call resolves
Suggested(b, c, bestMove, current) ==
    LET found == {m \in moves(b, c) : m.san = bestMove}
    IN  IF bestMove # NoBestMove /\ found # {}
        THEN LET m == CHOOSE x \in found : TRUE IN [from |-> m.from, to |-> m.to]
        ELSE current

SuggestComplete ==
    \E r \in hintCalls : \E bestMove \in BestMoves :
        /\ suggestedMove' = Suggested(board, eturn, bestMove, suggestedMove)
        /\ suggestionLoading' = FALSE
        /\ hintCalls' = hintCalls \ {r}
        /\ UNCHANGED <<engine, derived, outcome, selection, tips, clocks, timeControl, orientation, settings, analysis,
                       checkPending, ticks>>

\* line 230: getCoachTip resolves to a comment on the move, or to ""
CoachTipArrives ==
    \E which \in {"last", "earlier"} : \E tip \in {TipOn(which), NoTip} :
        /\ tipCalls[which] > 0
        /\ coachTip' = tip
        /\ tipCalls' = [tipCalls EXCEPT ![which] = @ - 1]
        /\ UNCHANGED <<engine, derived, outcome, selection, hint, clocks, timeControl, orientation, settings, analysis,
                       checkPending, ticks>>

(***************************************************************************)
(* Position analysis: handleAnalyze and the Coach button.                  *)
(***************************************************************************)
\* lines 278-280, up to the await, and the Coach button of lines 629-631
handleAnalyzeWithin(limit) ==
    /\ ~gameOver
    /\ analysisIssued < limit
    /\ analysisIssued' = analysisIssued + 1
    /\ isAnalysisOpen' = TRUE
    /\ analysisLoading' = TRUE
    /\ analysisCalls' = analysisCalls \cup {analysisIssued + 1}
    /\ UNCHANGED analysisResult
    /\ CommitOutcome(Outcome(gameOver, gameStatus), whiteTime, blackTime)
    /\ UNCHANGED <<engine, derived, selection, hint, tips, clocks, timeControl, ticks,
                   orientation, settings>>

handleAnalyze == handleAnalyzeWithin(MaxAnalyses)

\* lines 282-284: one analyzeBoard call of handleAnalyze resolves
AnalyzeComplete ==
    \E n \in analysisCalls :
        /\ analysisCalls' = analysisCalls \ {n}
        /\ analysisResult' = ResultOf(n)
        /\ analysisLoading' = FALSE
        /\ UNCHANGED <<isAnalysisOpen, analysisIssued>>
        /\ UNCHANGED <<engine, derived, outcome, selection, hint, tips, clocks, timeControl,
                       checkPending, ticks, orientation, settings>>

\* line 659: onClose, from the X or the "Back to Game" button of the dialog
closeAnalysis ==
    /\ isAnalysisOpen
    /\ isAnalysisOpen' = FALSE
    /\ UNCHANGED <<analysisLoading, analysisResult, analysisCalls, analysisIssued>>
    /\ CommitOutcome(Outcome(gameOver, gameStatus), whiteTime, blackTime)
    /\ UNCHANGED <<engine, derived, selection, hint, tips, clocks, timeControl, ticks,
                   orientation, settings>>

\* AnalysisModal.tsx line 16: the open dialog covers the screen, so the Coach
\* button is pressed with the dialog closed
CoachPressed == ~isAnalysisOpen /\ handleAnalyzeWithin(MaxOverlap)

Next ==
    \/ Tick
    \/ TimeoutCheck
    \/ Click
    \/ undoMove
    \/ resetGame
    \/ SuggestRequest
    \/ SuggestComplete
    \/ CoachTipArrives

Spec == Init /\ [][Next]_vars

\* a session picked up late: both sides have used all but LateSeconds of a
\* DefaultTimeControl game and every move was taken back
InitLate == Mounted(DefaultTimeControl, LateSeconds, LateSeconds)

SpecLate == InitLate /\ [][Next]_vars

\* one minute per side, run down by the interval
InitSixty == InitWith(Json(1))

\* the side to move does not change once the clocks run
ClickAtOnce == ticks = 0 /\ Click

NextSixty ==
    \/ TickWithin(SixtyOneTicks)
    \/ TimeoutCheck
    \/ ClickAtOnce

SpecSixty == InitSixty /\ [][NextSixty]_vars
\* the session with the asynchronous services left out: no hint is requested
\* and no commentary arrives
NextPlay ==
    \/ Tick
    \/ TimeoutCheck
    \/ Click
    \/ undoMove
    \/ resetGame

SpecPlay == Init /\ [][NextPlay]_vars

\* a first session: nothing is stored for chess_timeControl
InitFirst == InitWith(Missing)

\* a session in which no commentary arrives
NextFair ==
    \/ Tick
    \/ TimeoutCheck
    \/ Click
    \/ undoMove
    \/ resetGame
    \/ SuggestRequest
    \/ SuggestComplete

\* the awaited analyzeBoard promise settles (the call returns, or throws and
\* is caught), and the rest of handleSuggestMove then runs
SpecFair == InitFirst /\ [][NextFair]_vars /\ WF_vars(SuggestComplete)

\* the session up to its first reset: the New Game buttons are not pressed
NextUntilReset ==
    \/ Tick
    \/ TimeoutCheck
    \/ Click
    \/ undoMove
    \/ SuggestRequest
    \/ SuggestComplete
    \/ CoachTipArrives

SpecUntilReset == Init /\ [][NextUntilReset]_vars

\* the session with all three services and no take-back or new game; the
\* moves are made before the interval first fires, and the calls are made and
\* answered at any time
NextServices ==
    \/ Tick
    \/ TimeoutCheck
    \/ ClickAtOnce
    \/ SuggestRequest
    \/ SuggestComplete
    \/ CoachTipArrives
    \/ handleAnalyze
    \/ AnalyzeComplete

SpecServices == InitFirst /\ [][NextServices]_vars

\* the session of the Coach dialog: opened, closed and opened again while the
\* game goes on, the replies arriving at any time
NextAnalysis ==
    \/ Tick
    \/ TimeoutCheck
    \/ ClickAtOnce
    \/ CoachPressed
    \/ closeAnalysis
    \/ AnalyzeComplete

SpecAnalysis == InitFirst /\ [][NextAnalysis]_vars

(***************************************************************************)
(* The animation offset of the piece on the last move's target square.    *)
(* A square is <<file, rank>>; the file letters 'a'..'h' are 1..8.         *)
(***************************************************************************)
boardRows == <<8, 7, 6, 5, 4, 3, 2, 1>>
boardCols == <<1, 2, 3, 4, 5, 6, 7, 8>>

\* [...array].reverse()
Reversed(array) == [i \in 1..Len(array) |-> array[Len(array) + 1 - i]]

\* Array.prototype.indexOf: zero-based, -1 when the value is not in the array
indexOf(array, value) ==
    IF \E i \in 1..Len(array) : array[i] = value
    THEN (CHOOSE i \in 1..Len(array) :
              array[i] = value /\ \A j \in 1..(i - 1) : array[j] # value) - 1
    ELSE -1

displayRows(o) == IF o = "w" THEN boardRows ELSE Reversed(boardRows)
displayColsUnflipped(o) == boardCols
displayCols(o) == IF o = "w" THEN boardCols ELSE Reversed(boardCols)

\* animationOffset = null
NoOffset == [none |-> TRUE]

animationOffset(last, o) ==
    IF last = NoMove
    THEN NoOffset
    ELSE LET fromRowIndex == indexOf(displayRows(o), last.from[2])
             fromColIndex == indexOf(displayCols(o), last.from[1])
             toRowIndex == indexOf(displayRows(o), last.to[2])
             toColIndex == indexOf(displayCols(o), last.to[1])
         IN  IF fromRowIndex # -1 /\ toRowIndex # -1
             THEN [x |-> fromColIndex - toColIndex, y |-> fromRowIndex - toRowIndex]
             ELSE NoOffset

\* the flip button of the header
flipBoard ==
    /\ orientation' = (IF orientation = "w" THEN "b" ELSE "w")
    /\ CommitOutcome(Outcome(gameOver, gameStatus), whiteTime, blackTime)
    /\ UNCHANGED <<engine, derived, selection, hint, tips, clocks, timeControl, ticks,
                   settings, analysis>>

\* the squares of the board as rendered
GridSquares == {<<boardCols[c], boardRows[r]>> : c \in DOMAIN boardCols, r \in DOMAIN boardRows}

\* the board rendered with any move between two of its squares as the last
\* move, and flipped back and forth
InitOffset ==
    \E from \in GridSquares : \E to \in GridSquares \ {from} :
        MountedShowing(DefaultTimeControl, DefaultTimeControl * SecondsPerMinute,
                       DefaultTimeControl * SecondsPerMinute, [from |-> from, to |-> to])

NextOffset == flipBoard

SpecOffset == InitOffset /\ [][NextOffset]_vars

\* the resolver on any last move it can be handed: from and to are strings,
\* so the file may be a letter after 'h' and the rank a digit after 8
AnySquares ==
    {<<c, r>> : c \in 1..(Len(boardCols) + 1), r \in 1..(Len(boardRows) + 1)}

InitResolver ==
    \E from \in AnySquares : \E to \in AnySquares \ {from} :
        MountedShowing(DefaultTimeControl, DefaultTimeControl * SecondsPerMinute,
                       DefaultTimeControl * SecondsPerMinute, [from |-> from, to |-> to])

SpecResolver == InitResolver /\ [][NextOffset]_vars

(***************************************************************************)
(* The settings modal (src/components/SettingsModal.tsx) and the Persist   *)
(* Settings effect (src/App.tsx 64-70).                                    *)
(***************************************************************************)
\* BoardTheme, SettingsModal.tsx line 5
BoardThemes ==
    {String(<<"g", "r", "e", "e", "n">>), String(<<"b", "r", "o", "w", "n">>),
     String(<<"b", "l", "u", "e">>), String(<<"s", "l", "a", "t", "e">>),
     String(<<"p", "u", "r", "p", "l", "e">>),
     String(<<"b", "u", "r", "g", "u", "n", "d", "y">>)}

\* what is typed into a name field: nothing, a blank, a name, and the two
\* characters JSON escapes
TypedNames ==
    {String(<<>>), String(<<" ">>), String(<<"A", "l">>), String(<<Quote>>),
     String(<<Backslash>>)}

\* String.prototype.trim() leaves the empty string
Blank(name) == \A i \in DOMAIN name.v : name.v[i] = " "

\* a render with changed settings and the Persist Settings effect after it;
\* a setter called with the value already held renders nothing
SettingsChange(tc, theme, sound, white, black) ==
    IF <<tc, theme, sound, white, black>>
         = <<timeControl, boardTheme, soundEnabled, whiteName, blackName>>
    THEN UNCHANGED vars
    ELSE /\ timeControl' = tc
         /\ boardTheme' = theme
         /\ soundEnabled' = sound
         /\ whiteName' = white
         /\ blackName' = black
         /\ store' = Persisted(tc, theme, sound, white, black)
         /\ CommitOutcome(Outcome(gameOver, gameStatus), whiteTime, blackTime)
         /\ UNCHANGED <<engine, derived, selection, hint, tips, clocks, ticks, orientation,
                        analysis>>

\* SettingsModal.tsx line 108
setTimeControl ==
    \E t \in TimeControls :
        SettingsChange(t, boardTheme, soundEnabled, whiteName, blackName)

\* SettingsModal.tsx line 132
setBoardTheme ==
    \E theme \in BoardThemes :
        SettingsChange(timeControl, theme, soundEnabled, whiteName, blackName)

\* SettingsModal.tsx line 151
setSoundEnabled ==
    SettingsChange(timeControl, boardTheme, Boolean(~soundEnabled.v), whiteName, blackName)

\* SettingsModal.tsx lines 76 and 77
setWhiteName ==
    \/ \E name \in TypedNames :
           SettingsChange(timeControl, boardTheme, soundEnabled, name, blackName)
    \/ /\ Blank(whiteName)
       /\ SettingsChange(timeControl, boardTheme, soundEnabled, DefaultWhiteName, blackName)

\* SettingsModal.tsx lines 88 and 89
setBlackName ==
    \/ \E name \in TypedNames :
           SettingsChange(timeControl, boardTheme, soundEnabled, whiteName, name)
    \/ /\ Blank(blackName)
       /\ SettingsChange(timeControl, boardTheme, soundEnabled, whiteName, DefaultBlackName)

NextSettings ==
    \/ setTimeControl
    \/ setBoardTheme
    \/ setSoundEnabled
    \/ setWhiteName
    \/ setBlackName

SpecSettings == Init /\ [][NextSettings]_vars

\* the clocks of a session whose time control is changed in the settings
NextClocks ==
    \/ Tick
    \/ TimeoutCheck
    \/ ClickAtOnce
    \/ setTimeControl
    \/ resetGame

SpecClocks == Init /\ [][NextClocks]_vars

(***************************************************************************)
(* Properties.                                                             *)
(***************************************************************************)
HintResolves(r) == r \in hintCalls /\ hintCalls' = hintCalls \ {r}
MoveIsApplied == Len(hist') > Len(hist)

\* C1: when a hint call resolves after a manual move was applied while it
\* was pending, the Recommendation is absent afterwards, whatever notation
\* the analysis returned.
C1_HintOvertakenByMoveIsDropped ==
    [][\A r \in hintCalls : (HintResolves(r) /\ r.moved) => suggestedMove' = NoMove]_vars

\* C2: when a hint call resolves after a reset was performed while it was
\* pending, the Recommendation is absent afterwards.
C2_HintOvertakenByResetIsDropped ==
    [][\A r \in hintCalls : (HintResolves(r) /\ r.reset) => suggestedMove' = NoMove]_vars

\* the initial state of a session under the time control configured
FreshSession ==
    /\ board = StartBoard /\ eturn = "w" /\ hist = <<>>
    /\ whiteTime = timeControl * SecondsPerMinute
    /\ blackTime = timeControl * SecondsPerMinute
    /\ historyCount = 0 /\ lastMove = NoMove
    /\ ~gameOver /\ gameStatus = Active
    /\ selectedSquare = NoSquare /\ possibleMoves = {}
    /\ suggestedMove = NoMove
    /\ coachTip = NoTip

\* C3: a single reset yields the initial state from every state, the states
\* whose Outcome is terminal included (stated here for the resets performed
\* while no timeout effect is pending, which the claim includes).
C3_ResetYieldsInitialState ==
    [][(checkPending = {} /\ resetGame) => FreshSession']_vars

\* C4: Outcome changes only from active to terminal, or from terminal to
\* active by reset; never from one terminal value to another.
C4_OutcomeTransitions ==
    [][<<gameOver, gameStatus>>' # <<gameOver, gameStatus>> =>
          \/ ~gameOver /\ gameOver'
          \/ gameOver /\ ~gameOver' /\ resetGame]_vars

\* C5: a tick while Outcome is active takes one second from the side the
\* engine has to move if it has any left and leaves it at zero otherwise, the
\* other side's clock is unchanged, and no clock is ever negative.
C5_TickAndNoNegativeClock ==
    /\ [][(~gameOver /\ ticks' = ticks + 1) =>
             /\ whiteTime' = IF eturn = "w" THEN (IF whiteTime > 0 THEN whiteTime - 1 ELSE 0)
                              ELSE whiteTime
             /\ blackTime' = IF eturn = "b" THEN (IF blackTime > 0 THEN blackTime - 1 ELSE 0)
                              ELSE blackTime]_vars
    /\ [](whiteTime >= 0 /\ blackTime >= 0)

\* C6: once a side's clock is at zero and the timeout effect has run, Outcome
\* is timeout with the other side as winner; with sixty seconds per side and
\* the side to move not changing, sixty ticks leave that side at 0 with the
\* other side the winner on time, and no further tick is delivered.
C6_TimeoutWhenClockReachesZero ==
    /\ (whiteTime <= 0 /\ checkPending = {}) => (gameOver /\ gameStatus = Timeout("b"))
    /\ (blackTime <= 0 /\ checkPending = {}) => (gameOver /\ gameStatus = Timeout("w"))
    /\ ticks <= timeControl * SecondsPerMinute
    /\ (ticks = timeControl * SecondsPerMinute /\ checkPending = {}) =>
          /\ gameOver
          /\ IF turn = "w" THEN whiteTime = 0 /\ gameStatus = Timeout("b")
                           ELSE blackTime = 0 /\ gameStatus = Timeout("w")

C6_Witness ==
    /\ ticks = timeControl * SecondsPerMinute
    /\ blackTime = 0
    /\ gameStatus = Timeout("w")

\* C7: no move is applied to the Position once a clock has reached zero.
C7_NoMoveAfterExpiry ==
    [][MoveIsApplied => (whiteTime > 0 /\ blackTime > 0)]_vars

\* C8: while Outcome is terminal a tick changes neither clock, a click
\* changes neither Position, history nor selection, and Outcome stays
\* terminal until reset.
C8_TerminalFreezes ==
    [][gameOver =>
          /\ Tick => UNCHANGED clocks
          /\ Click => UNCHANGED <<engine, historyCount, lastMove, selection>>
          /\ ~gameOver' => resetGame]_vars

C8_Witness ==
    /\ gameOver
    /\ gameStatus = Checkmate("w")
    /\ whiteTime > 0 /\ blackTime > 0
    /\ checkPending = {}

\* C9: a click changes the Position only if a square is selected and
\* (selection, clicked square) is a legal move of the engine.
C9_PositionChangesOnlyByLegalMove ==
    [][\A square \in Squares :
          (<<board, eturn>>' # <<board, eturn>> /\ onSquareClick(square)) =>
             /\ selectedSquare # NoSquare
             /\ \E m \in LegalMoves(board, eturn) :
                    m.from = selectedSquare /\ m.to = square]_vars

C9_Witness ==
    /\ Len(hist) = 2
    /\ hist[1].promotion = "q"
    /\ selectedSquare # NoSquare

\* C10: the selection is empty or one square holding a piece of the side to
\* move in the current Position.
C10_SelectionIsOwnPiece ==
    \/ selectedSquare = NoSquare
    \/ /\ selectedSquare \in Squares
       /\ board[selectedSquare] # Empty
       /\ ColorOf(board[selectedSquare]) = eturn

C10_Witness ==
    /\ selectedSquare # NoSquare
    /\ eturn = "b"
    /\ Len(hist) = 1
\* the engine rejects the move from -> to in the current position
Rejected(from, to) == ~\E m \in moves(board, eturn) : m.from = from /\ m.to = to

\* C11: a click that attempts a move the engine rejects leaves Position, both
\* clocks and the history count unchanged, and the clicked square becomes the
\* selection if it holds a piece of the side to move, else the selection
\* becomes empty.
C11_RejectedMoveReselects ==
    [][\A square \in Squares :
          (/\ ~gameOver
           /\ selectedSquare # NoSquare
           /\ selectedSquare # square
           /\ Rejected(selectedSquare, square)
           /\ onSquareClick(square)) =>
             /\ UNCHANGED <<engine, clocks, historyCount>>
             /\ selectedSquare' = IF board[square] # Empty /\ ColorOf(board[square]) = eturn
                                  THEN square ELSE NoSquare]_vars

\* a rejected attempt has just re-selected another piece of the side to move:
\* after the queen promotion and Black's reply White holds king and queen
C11_Witness ==
    /\ Len(hist) = 2
    /\ hist[1].promotion = "q"
    /\ selectedSquare # NoSquare
    /\ TypeOf(board[selectedSquare]) = "q"
    /\ ~gameOver

\* C12: in a state where Outcome is terminal or a suggestion request is
\* outstanding no step issues an analysis call for a hint, raises the loading
\* flag or touches the Recommendation by a request; at most one suggestion
\* request is outstanding at any time, and the loading flag is up exactly then.
C12_OneSuggestionOutstanding ==
    /\ [][(gameOver \/ suggestionLoading) =>
             /\ Cardinality(hintCalls') <= Cardinality(hintCalls)
             /\ suggestionLoading' => suggestionLoading
             /\ ~SuggestRequest]_vars
    /\ [](Cardinality(hintCalls) <= 1 /\ (suggestionLoading <=> hintCalls # {}))

C12_Witness ==
    /\ gameOver
    /\ suggestionLoading
    /\ \E r \in hintCalls : r.moved

\* every best-move notation a reply can carry: the notation of a move of some
\* position, text that is no move, or none
AnyBestMove ==
    UNION {{m.san : m \in Book[p].moves} : p \in DOMAIN Book} \cup {NoBestMove, Unplayable}

\* the legal moves of the position with their notation, as the engine gives
\* them
Notations(b, c) ==
    {[san |-> m.san, from |-> m.from, to |-> m.to] : m \in moves(b, c)}

\* the coordinates of the move written bestMove among notes, absent if none is
Named(notes, bestMove) ==
    LET found == {n \in notes : n.san = bestMove}
    IN  IF found = {} THEN NoMove
        ELSE LET n == CHOOSE x \in found : TRUE IN [from |-> n.from, to |-> n.to]

\* C13: when a suggestion request that no move and no reset overtook
\* completes, the Recommendation becomes the coordinates of the move legal in
\* the position current at completion whose notation is the returned one, and
\* stays absent if the reply carries none or it names no legal move; the
\* loading flag is cleared and Outcome is untouched.
C13_FreshSuggestionCompletes ==
    /\ [][\A r \in hintCalls : (HintResolves(r) /\ ~r.moved /\ ~r.reset) =>
             /\ suggestedMove = NoMove
             /\ LET notes == Notations(board, eturn)
                IN  \E bestMove \in AnyBestMove : suggestedMove' = Named(notes, bestMove)
             /\ suggestionLoading' = FALSE
             /\ UNCHANGED outcome]_vars
    /\ [](LET notes == Notations(board, eturn)
          IN  \A bestMove \in AnyBestMove :
                 Suggested(board, eturn, bestMove, NoMove) = Named(notes, bestMove))

C13_Witness ==
    /\ suggestedMove # NoMove
    /\ hintCalls = {}
    /\ ~suggestionLoading
    /\ Len(hist) = 1
    /\ board[suggestedMove.from] = Piece("b", "k")

\* C14: every suggestion request eventually stops being outstanding; while
\* one is outstanding the Recommendation is absent (so a reply without a best
\* move leaves it absent), a click can still change the selection, a take-back the
\* position (when there is a move to take back and the game is not over), a
\* tick the clock of the side to move and reset is enabled; a step that ends
\* the request is none of these.
C14_SuggestionNeverBlocks ==
    /\ suggestionLoading ~> ~suggestionLoading
    /\ [](suggestionLoading =>
             /\ suggestedMove = NoMove
             /\ ~gameOver => ENABLED <<Click>>_selection
             /\ (~gameOver /\ historyCount # 0) => ENABLED <<undoMove>>_engine
             /\ ENABLED resetGame
             /\ (~gameOver /\ checkPending = {} /\ ticks < MaxTicks
                    /\ (IF turn = "w" THEN whiteTime ELSE blackTime) # 0)
                  => ENABLED <<Tick>>_clocks)
    /\ [][(suggestionLoading /\ ~(suggestionLoading' /\ Cardinality(hintCalls') = 1)) =>
             ~(Tick \/ Click \/ undoMove \/ resetGame)]_vars

C14_Witness ==
    /\ suggestionLoading
    /\ historyCount = 2
    /\ ticks = 1
    /\ selectedSquare # NoSquare
    /\ \E r \in hintCalls : r.moved /\ r.reset

\* C15: a successful move that does not end the game by the rules raises the
\* history count by exactly one, makes the applied (from, to) the last move,
\* gives the move to the other side, clears the selection and leaves Outcome
\* active; the first move from the starting position gives history count 1,
\* Black to move and Outcome active.
C15_MoveAdvancesTheGame ==
    [][(MoveIsApplied /\ ~isGameOver(board', eturn')) =>
          /\ historyCount' = historyCount + 1
          /\ lastMove' = [from |-> selectedSquare, to |-> hist'[Len(hist')].to]
          /\ eturn' = Other(eturn) /\ turn' = eturn'
          /\ selectedSquare' = NoSquare /\ possibleMoves' = {}
          /\ ~gameOver' /\ gameStatus' = Active
          /\ hist = <<>> => (historyCount' = 1 /\ turn' = "b")]_vars

\* C16: after a move Outcome is checkmate, won by the side that moved, if the
\* engine reports checkmate, else draw if it reports a draw, else stalemate
\* if it reports stalemate, else active; and a position the engine reports
\* as stalemate yields Outcome stalemate (stated for the moves made while no
\* timeout effect is pending).
C16_OutcomeAfterMove ==
    [][(checkPending = {} /\ MoveIsApplied) =>
          /\ Outcome(gameOver', gameStatus') =
                IF isCheckmate(board', eturn') THEN Outcome(TRUE, Checkmate(eturn))
                ELSE IF isDraw(board', eturn') THEN Outcome(TRUE, Draw)
                ELSE IF isStalemate(board', eturn') THEN Outcome(TRUE, Stalemate)
                ELSE Outcome(FALSE, Active)
          /\ isStalemate(board', eturn') => gameStatus' = Stalemate]_vars

\* C17: a take-back changes neither clock; the time that ran during the move
\* taken back is not given back.
C17_UndoKeepsClocks ==
    [][clocks' # clocks => ~undoMove]_vars

\* Black's clock ran after White's first move, and the move was taken back
C17_Witness ==
    /\ hist = <<>>
    /\ whiteTime = timeControl * SecondsPerMinute
    /\ blackTime = timeControl * SecondsPerMinute - 1

\* C18: a take-back changes neither Position, history, selection,
\* Recommendation, commentary nor Outcome if the history is empty or if no
\* reset has occurred in the session (no behaviour of SpecUntilReset holds a
\* reset, so there every take-back is to change nothing).
C18_UndoNeedsHistoryAndReset ==
    [][undoMove =>
          UNCHANGED <<engine, historyCount, lastMove, selection, suggestedMove, coachTip,
                      outcome>>]_vars

\* the selected piece is a pawn that the rules let move to square, on its
\* last rank
PromotesOn(square) ==
    /\ selectedSquare # NoSquare
    /\ TypeOf(board[selectedSquare]) = "p"
    /\ square[2] = LastRank(eturn)
    /\ \E m \in LegalMoves(board, eturn) : m.from = selectedSquare /\ m.to = square

\* C19: a click that asks for a pawn move to the last rank is applied as a
\* promotion to a queen with no further choice (the selection is empty
\* afterwards), and every move applied carries a queen as promotion piece if
\* it is such a pawn move and none otherwise.
C19_PromotionDefaultsToQueen ==
    [][/\ \A square \in Squares :
             (~gameOver /\ PromotesOn(square) /\ onSquareClick(square)) =>
                /\ MoveIsApplied
                /\ board'[square] = Piece(eturn, "q")
                /\ board'[selectedSquare] = Empty
                /\ selectedSquare' = NoSquare
       /\ MoveIsApplied =>
             hist'[Len(hist')].promotion =
                IF PromotesOn(hist'[Len(hist')].to) THEN "q" ELSE None]_vars

C19_Witness ==
    /\ Len(hist) = 1
    /\ hist[1].promotion = "q"
    /\ board[hist[1].to] = Piece("w", "q")
    /\ selectedSquare = NoSquare
\* the index of a square's column and row in the displayed grid: columns run
\* a..h and rows 8..1 from the top left with white at the bottom, and both
\* run the other way with black at the bottom
DisplayColumn(square, o) == IF o = "w" THEN square[1] - 1 ELSE Len(boardCols) - square[1]
DisplayRow(square, o) == IF o = "w" THEN Len(boardRows) - square[2] ELSE square[2] - 1
Negation(offset) == [x |-> 0 - offset.x, y |-> 0 - offset.y]

\* C20: the animation offset is a function of (from, to, orientation) alone:
\* it is (display column of from minus display column of to, display row of
\* from minus display row of to), and the offset of a move under the flipped
\* orientation is the component-wise negation of its offset under the normal
\* orientation.
C20_OffsetNegatedByFlip ==
    /\ [](lastMove # NoMove =>
            /\ animationOffset(lastMove, orientation) =
                 [x |-> DisplayColumn(lastMove.from, orientation)
                          - DisplayColumn(lastMove.to, orientation),
                  y |-> DisplayRow(lastMove.from, orientation)
                          - DisplayRow(lastMove.to, orientation)]
            /\ animationOffset(lastMove, "b") = Negation(animationOffset(lastMove, "w")))
    /\ [][(flipBoard /\ lastMove # NoMove) =>
            animationOffset(lastMove', orientation') =
              Negation(animationOffset(lastMove, orientation))]_vars

\* g1-f3 seen from black's side after a flip
C20_Witness ==
    /\ orientation = "b"
    /\ lastMove = [from |-> <<7, 1>>, to |-> <<6, 3>>]
    /\ animationOffset(lastMove, "w") = [x |-> 1, y |-> 2]
    /\ animationOffset(lastMove, orientation) = [x |-> -1, y |-> -2]

\* a square is located when its row is in displayRows and its column in
\* displayCols
Located(square, o) ==
    /\ indexOf(displayRows(o), square[2]) # -1
    /\ indexOf(displayCols(o), square[1]) # -1

C22_LoadedTimeControlSupported == timeControl \in TimeControls

\* what the next session start reads from the store
Reloaded ==
    <<getSavedSetting(SavedNumber(store.chess_timeControl), DefaultTimeControl),
      getSavedSetting(Saved(store.chess_boardTheme), DefaultBoardTheme),
      getSavedSetting(Saved(store.chess_soundEnabled), Boolean(TRUE)),
      getSavedSetting(Saved(store.chess_whiteName), DefaultWhiteName),
      getSavedSetting(Saved(store.chess_blackName), DefaultBlackName)>>

\* C23: every change of a setting is written to the store, and the next
\* session start reads from the store the values the settings have, the
\* sound flag false and an empty display name included.
C23_SettingsRoundTrip ==
    /\ store = Persisted(timeControl, boardTheme, soundEnabled, whiteName, blackName)
    /\ Reloaded = <<timeControl, boardTheme, soundEnabled, whiteName, blackName>>

C23_Witness ==
    /\ soundEnabled = Boolean(FALSE)
    /\ whiteName = String(<<>>)
    /\ blackName = String(<<Quote>>)
    /\ timeControl = 30
    /\ store.chess_soundEnabled = FalseText
    /\ store.chess_whiteName = <<Quote, Quote>>
    /\ store.chess_blackName = <<Quote, Backslash, Quote, Quote>>
    /\ store.chess_timeControl = <<"3", "0">>
    /\ Reloaded = <<30, boardTheme, Boolean(FALSE), String(<<>>), String(<<Quote>>)>>

\* the Position a history leads to from the start
RECURSIVE Replayed(_)
Replayed(h) ==
    IF h = <<>> THEN StartBoard
    ELSE LET m == h[Len(h)]
         IN  After(Replayed(SubSeq(h, 1, Len(h) - 1)), m.from, m.to, m.promotion)
ToMoveAfter(h) == IF Len(h) % 2 = 0 THEN "w" ELSE "b"

\* C24: with a non-empty history, a take-back restores the Position before
\* the last move, makes the history count one less, sets the last move to
\* the new last entry of the history (absent when the history is empty), and
\* leaves selection, Recommendation and commentary absent.
C24_UndoRevertsLastMove ==
    [][(Len(hist) # 0 /\ Len(hist') # Len(hist) /\ undoMove) =>
          LET h == SubSeq(hist, 1, Len(hist) - 1)
          IN  /\ hist' = h
              /\ board' = Replayed(h)
              /\ eturn' = ToMoveAfter(h)
              /\ fen' = Fen(Replayed(h), ToMoveAfter(h), h)
              /\ turn' = ToMoveAfter(h)
              /\ historyCount' = historyCount - 1
              /\ lastMove' = IF h = <<>> THEN NoMove
                             ELSE [from |-> h[Len(h)].from, to |-> h[Len(h)].to]
              /\ selectedSquare' = NoSquare
              /\ possibleMoves' = {}
              /\ suggestedMove' = NoMove
              /\ coachTip' = NoTip]_vars

\* Black's clock ran after White's first move, a comment on that move was
\* asked for, and the move was taken back
C24_Witness ==
    /\ hist = <<>>
    /\ board = StartBoard
    /\ historyCount = 0
    /\ lastMove = NoMove
    /\ blackTime = timeControl * SecondsPerMinute - 1
    /\ tipCalls.earlier > 0
    /\ coachTip = NoTip
    /\ suggestedMove = NoMove

\* C25: a tick changes nothing but the clock of the side to move, and the
\* Outcome only once a clock is at zero; the completion of a suggestion, an
\* analysis or a commentary call changes neither Position, clocks, history,
\* selection nor Outcome; a commentary completion changes only the
\* commentary.
C25_EventsKeepToTheirState ==
    [][/\ (ticks' # ticks /\ Tick) =>
            /\ UNCHANGED <<engine, derived, outcome, selection, hint, tips, timeControl,
                           orientation, settings, analysis>>
            /\ eturn = "w" => blackTime' = blackTime
            /\ eturn = "b" => whiteTime' = whiteTime
       /\ (checkPending' # checkPending /\ TimeoutCheck) =>
            /\ UNCHANGED <<engine, derived, selection, hint, tips, clocks, timeControl,
                           orientation, settings, analysis>>
            /\ outcome' # outcome => (whiteTime <= 0 \/ blackTime <= 0)
       /\ \/ hintCalls' # hintCalls /\ SuggestComplete
          \/ analysisCalls' # analysisCalls /\ AnalyzeComplete
          \/ tipCalls' # tipCalls /\ CoachTipArrives
          => UNCHANGED <<engine, derived, clocks, selection, outcome>>
       /\ (tipCalls' # tipCalls /\ CoachTipArrives) =>
            UNCHANGED <<engine, derived, outcome, selection, hint, clocks, timeControl,
                        orientation, settings, analysis>>]_vars

\* after Black's clock ran, a suggestion, an analysis and a comment have all
\* arrived
C25_Witness ==
    /\ historyCount = 1
    /\ blackTime = timeControl * SecondsPerMinute - 1
    /\ whiteTime = timeControl * SecondsPerMinute
    /\ suggestedMove # NoMove
    /\ analysisResult # NoResult
    /\ coachTip = TipOn("last")

\* C26: once a move, a take-back or a reset has settled, the stored side to
\* move is the engine's side to move in the current Position, and the clock
\* a tick then decrements is the clock of that side.
C26_StoredTurnIsEngineTurn ==
    /\ [](turn = eturn /\ turn = ToMoveAfter(hist) /\ fen = Fen(board, eturn, hist))
    /\ [][(ticks' # ticks /\ Tick) =>
            /\ eturn = "w" => (blackTime' = blackTime /\ whiteTime' = Decrement(whiteTime))
            /\ eturn = "b" => (whiteTime' = whiteTime /\ blackTime' = Decrement(blackTime))]_vars

\* Black's clock ran after White's first move
C26_Witness ==
    /\ Len(hist) = 1
    /\ eturn = "b"
    /\ turn = "b"
    /\ whiteTime = timeControl * SecondsPerMinute
    /\ blackTime = Decrement(timeControl * SecondsPerMinute)
    /\ timeControl \in TimeControls

\* C27: changing the time control leaves both clocks as they are; the
\* clocks change only by a tick or by a reset, and a reset sets both to 60
\* times the time control configured when it is made.
C27_TimeControlAppliesAtReset ==
    [][/\ (timeControl' # timeControl /\ setTimeControl) => UNCHANGED clocks
       /\ clocks' # clocks => (Tick \/ resetGame)
       /\ resetGame =>
            /\ timeControl' = timeControl
            /\ whiteTime' = 60 * timeControl
            /\ blackTime' = 60 * timeControl]_vars

\* a reset under 30 minutes, a tick, and then a change to 5 minutes
C27_Witness ==
    /\ timeControl = 5
    /\ whiteTime = 60 * 30 - 1
    /\ blackTime = 60 * 30
    /\ store.chess_timeControl = <<"5">>

\* what a click that only selects or deselects leaves alone; the Outcome
\* changes in its commit only by a timeout effect that was pending
SelectionOnly ==
    /\ UNCHANGED <<engine, derived, hint, tips, clocks, timeControl, ticks, orientation,
                   settings, analysis>>
    /\ checkPending = {} => UNCHANGED <<outcome, checkPending>>

\* C28 as stated: a click on the selected square clears the selection and the
\* destinations and changes nothing else, and a click that selects a square
\* of the side to move starts from the state that the click after it, on the
\* same square, returns to: one with no selection.
C28_SelectThenToggleReturns ==
    [][\A s \in Squares :
         /\ (~gameOver /\ selectedSquare = s /\ onSquareClick(s)) =>
               (selectedSquare' = NoSquare /\ possibleMoves' = {} /\ SelectionOnly)
         /\ (~gameOver /\ selectedSquare # s /\ selectedSquare' = s /\ onSquareClick(s)) =>
               (selectedSquare = NoSquare /\ possibleMoves = {} /\ SelectionOnly)]_vars

\* C28, amended: as above for a click that selects while no square is
\* selected.
C28_ToggleFromNoSelection ==
    [][\A s \in Squares :
         /\ (~gameOver /\ selectedSquare = s /\ onSquareClick(s)) =>
               (selectedSquare' = NoSquare /\ possibleMoves' = {} /\ SelectionOnly)
         /\ (~gameOver /\ selectedSquare = NoSquare /\ selectedSquare' = s
             /\ onSquareClick(s)) =>
               (possibleMoves = {} /\ SelectionOnly)]_vars

\* the pawn is selected, by a click made with no square selected, and a
\* click on it is accepted
C28_Witness ==
    /\ selectedSquare = <<3, 2>>
    /\ possibleMoves # {}
    /\ ~gameOver
    /\ hist = <<>>
    /\ ticks = 1
    /\ checkPending = {}

\* the destinations of the legal moves from a square, by the rules of the game
LegalDestinations(b, c, sq) == {m.to : m \in {x \in LegalMoves(b, c) : x.from = sq}}

\* C29: in every reachable state the stored destination set is empty when no
\* square is selected, and when a square is selected it is the set of
\* destinations of the legal moves from that square in the engine's position.
C29_DestinationsOfSelection ==
    IF selectedSquare = NoSquare
    THEN possibleMoves = {}
    ELSE possibleMoves = LegalDestinations(board, eturn, selectedSquare)

\* after white's first move the black king is selected, with a square to go to
C29_Witness ==
    /\ Len(hist) = 1
    /\ selectedSquare = <<3, 1>>
    /\ possibleMoves # {}
    /\ possibleMoves # Squares

\* C30: the history count is the length of the engine's history, and the
\* stored last move is absent exactly when that count is zero and is
\* otherwise the (from, to) of the engine's most recent move.
C30_HistoryCountAndLastMove ==
    /\ historyCount = Len(hist)
    /\ lastMove = NoMove <=> historyCount = 0
    /\ historyCount # 0 =>
          /\ lastMove.from = hist[Len(hist)].from
          /\ lastMove.to = hist[Len(hist)].to

\* two moves were made: the last move is black's, from the king's square
C30_Witness ==
    /\ historyCount = 2
    /\ Len(hist) = 2
    /\ lastMove.from = <<3, 1>>
    /\ lastMove.to = hist[2].to

\* C31: a Recommendation that is present names the (from, to) of a move that
\* is legal in the engine's position, and every step that changes the
\* position leaves the Recommendation absent.
C31_RecommendationIsLegal ==
    /\ [](suggestedMove # NoMove =>
             suggestedMove.to \in LegalDestinations(board, eturn, suggestedMove.from))
    /\ [][<<board, eturn>>' # <<board, eturn>> => suggestedMove' = NoMove]_vars

\* a hint asked for before white's first move resolved after it, to a move of
\* black's
C31_Witness ==
    /\ Len(hist) = 1
    /\ suggestedMove # NoMove
    /\ board[suggestedMove.from] = Piece("b", "k")
    /\ ~suggestionLoading

\* C32: no Recommendation becomes present while the Outcome is terminal: a
\* step taken with the game over leaves an absent Recommendation absent.
C32_NoRecommendationWhenTerminal ==
    [][(gameOver /\ suggestedMove = NoMove) => suggestedMove' = NoMove]_vars

\* C33: the commentary shown is absent or is the comment on the last move
\* applied, and the reply to a commentary call that a later move, take-back
\* or reset has overtaken leaves the commentary as it is.
C33_CommentaryOnLastMove ==
    /\ [](coachTip \in {NoTip, TipOn("last")})
    /\ [][tipCalls'.earlier < tipCalls.earlier => coachTip' = coachTip]_vars

\* C34: the analysis loading flag is up exactly while a Coach request is
\* outstanding, and once none is the result shown is that of the request
\* issued last.
C34_AnalysisLoadingAndResult ==
    /\ analysisLoading <=> analysisCalls # {}
    /\ (analysisCalls = {} /\ analysisIssued > 0) => analysisResult = ResultOf(analysisIssued)

====
